---- MODULE Spec2Model ----
(***************************************************************************)
(* Model of VoiceRecorderApp (src/voiceRecorder.py): the recording session  *)
(* state (is_recording, recorded_frames, the QTimer and the QTime it        *)
(* advances, the sounddevice input stream), the handlers of the GUI thread  *)
(* (toggle_recording, stop_recording with save_file and reset_ui,           *)
(* update_timer, closeEvent) and the audio thread's audio_callback.         *)
(*                                                                          *)
(* The GUI thread's position is pc.  A handler runs from the event loop     *)
(* (pc = "idle") and is cut where the code blocks in a modal dialog (a      *)
(* nested event loop, in which timer events are still dispatched) and       *)
(* between stream.stop() and save_file(), where only the audio thread could *)
(* interleave.  The audio thread runs audio_callback whenever the stream is *)
(* active, whatever the GUI thread is doing.                                *)
(***************************************************************************)
EXTENDS Integers, Sequences, FiniteSets, TLC

\* ------------------------------------------------------------------ bounds
\* accepted start requests in one run
MaxSessions == 2
\* blocks the audio source delivers in one Recording phase
MaxBlocks == 2
\* timer ticks after one timer.start()
MaxTicks == 2

\* ------------------------------------------------------- program constants
samplerate == 44100
channels == 1
\* QTime is a time of day: addSecs wraps around at midnight
SecsPerDay == 24 * 60 * 60

\* ------------------------------------------------------------ input values
\* sample blocks the microphone can deliver (int16 frames, mono)
BlockValues == {<<7>>, <<8, 9>>}
\* paths QFileDialog.getSaveFileName can return; <<>> is the cancelled prompt
Paths == {<<>>, <<"r">>, <<"r", ".", "m", "p", "3">>, <<"r", ".", "M", "P", "3">>}
\* sd.InputStream(...) raises, stream.start() raises, or both succeed
StartOutcomes == {"ok", "ctor_raises", "start_raises"}
\* scipy.io.wavfile.write: succeeds, raises FileNotFoundError (before or after
\* creating the file), raises another OSError (before or after creating it)
WavOutcomes == {"ok", "fnf", "oserror", "oserror_partial"}
\* subprocess.run(['ffmpeg', ...], check=True): exit status 0, executable
\* missing (FileNotFoundError), non-zero exit (with or without an output file)
EncOutcomes == {"ok", "not_found", "nonzero", "nonzero_partial"}

VARIABLES
    is_recording,     \* self.is_recording
    recorded_frames,  \* self.recorded_frames: sequence of blocks
    time,             \* self.time, as seconds since 00:00:00
    timer_active,     \* self.timer.isActive()
    stream,           \* self.stream: "none" (attribute unset), "open", "active", "closed"
    pc,               \* position of the GUI thread
    recording,        \* save_file's local: np.concatenate(self.recorded_frames)
    file_path,        \* save_file's local, after normalisation
    temp_exists,      \* whether temp_recording.wav exists
    wav_input,        \* the samples handed to wav.write by the running save_file
    dest_files,       \* destination files that exist
    result,           \* the message box of the running/last stop: the EncodeResult
    handles,          \* PortAudio streams opened and not closed
    sessions,         \* accepted start requests so far
    delivered,        \* blocks the source delivered since the last accepted start
    encoder_calls,    \* times the ffmpeg process was actually run
    command,          \* the argument list given to subprocess.run by the running save_file
    prompt_path,      \* what the save prompt returned to the running save_file
    cause,            \* what actually happened in the running save_file's try block
    lastOp            \* the handler (and branch) that made the last step

vars == <<is_recording, recorded_frames, time, timer_active, stream, pc, recording,
          file_path, temp_exists, wav_input, dest_files, result, handles, sessions,
          delivered, encoder_calls, command, prompt_path, cause, lastOp>>

\* everything but the record of which handler ran
progVars == <<is_recording, recorded_frames, time, timer_active, stream, pc, recording,
              file_path, temp_exists, wav_input, dest_files, result, handles, sessions,
              delivered, encoder_calls, command, prompt_path, cause>>

\* --------------------------------------------------------- pure functions
\* np.concatenate(frames, axis=0): the blocks' samples, in list order
RECURSIVE concatenate(_)
concatenate(frames) ==
    IF frames = <<>> THEN <<>> ELSE Head(frames) \o concatenate(Tail(frames))

\* str.lower() on the characters the model uses
lowerChar(c) == IF c = "M" THEN "m" ELSE IF c = "P" THEN "p" ELSE c

lower(s) == [i \in 1..Len(s) |-> lowerChar(s[i])]

\* str.endswith
endswith(s, suffix) ==
    /\ Len(s) >= Len(suffix)
    /\ SubSeq(s, Len(s) - Len(suffix) + 1, Len(s)) = suffix

dotMp3 == <<".", "m", "p", "3">>

\* normalisation that appends .mp3 to every path
normalize_always_append(path) == path \o dotMp3

\* lines 163-164: append .mp3 unless the lower-cased path already ends in it
normalize(path) == IF ~endswith(lower(path), dotMp3) THEN path \o dotMp3 ELSE path

\* str(n) for a natural number: its decimal digits
digitChar(d) ==
    CASE d = 0 -> "0" [] d = 1 -> "1" [] d = 2 -> "2" [] d = 3 -> "3" [] d = 4 -> "4"
      [] d = 5 -> "5" [] d = 6 -> "6" [] d = 7 -> "7" [] d = 8 -> "8" [] OTHER -> "9"

RECURSIVE str(_)
str(n) == IF n < 10 THEN <<digitChar(n)>> ELSE str(n \div 10) \o <<digitChar(n % 10)>>

temp_wav_path == "temp_recording.wav"

\* lines 172-181: the argument list of the ffmpeg run, for output file out
ffmpeg_command(out) ==
    <<"ffmpeg", "-i", temp_wav_path, "-y", "-vn", "-ar", str(samplerate),
      "-ac", str(channels), "-b:a", "192k", out>>

\* QTime.addSecs: a QTime wraps around at 24 hours
addSecs(t, n) == (t + n) % SecsPerDay

\* positions where the GUI thread sits in an event loop (the main loop, or the
\* nested loop of a modal dialog) and dispatches timer events
EventLoopPcs == {"idle", "start_error_box", "save_warning_box", "save_dialog", "save_message_box"}

\* ------------------------------------------------------------------- Init
Init ==
    /\ is_recording = FALSE
    /\ recorded_frames = <<>>
    /\ time = 0
    /\ timer_active = FALSE
    /\ stream = "none"
    /\ pc = "idle"
    /\ recording = <<>>
    /\ file_path = <<>>
    /\ temp_exists = FALSE
    /\ wav_input = <<>>
    /\ dest_files = {}
    /\ result = "none"
    /\ handles = 0
    /\ sessions = 0
    /\ delivered = <<>>
    /\ encoder_calls = 0
    /\ command = <<>>
    /\ prompt_path = <<>>
    /\ cause = "none"
    /\ lastOp = "init"

\* ---------------------------------------------------------------- actions
\* reset_ui: the only state it changes is is_recording (the rest is widgets)
reset_ui_skipped == is_recording' = is_recording

reset_ui == is_recording' = FALSE

\* toggle_recording past the guard, lines 100-125: the session state is set and
\* the timer started before the try; the stream is then constructed and
\* started, and a failure of either ends in the error box of line 125.
\* frames is the value given to recorded_frames
start_recording(frames) ==
    /\ sessions < MaxSessions
    /\ \E outcome \in StartOutcomes :
        /\ is_recording' = TRUE
        /\ recorded_frames' = frames
        /\ time' = 0
        /\ timer_active' = TRUE
        /\ sessions' = sessions + 1
        /\ delivered' = <<>>
        /\ stream' = CASE outcome = "ok" -> "active"
                       [] outcome = "start_raises" -> "open"
                       [] OTHER -> stream
        /\ handles' = IF outcome = "ctor_raises" THEN handles ELSE handles + 1
        /\ pc' = IF outcome = "ok" THEN "idle" ELSE "start_error_box"
        /\ lastOp' = "toggle_recording"
    /\ UNCHANGED <<recording, file_path, temp_exists, wav_input, dest_files, result,
                   encoder_calls, command, prompt_path, cause>>

\* toggle_recording with the early return of line 98 removed
toggle_recording_no_guard ==
    /\ pc = "idle"
    /\ start_recording(<<>>)

\* toggle_recording without line 101's clearing of recorded_frames
toggle_recording_no_clear ==
    /\ pc = "idle"
    /\ IF is_recording
       THEN /\ lastOp' = "toggle_recording_return"
            /\ UNCHANGED progVars
       ELSE start_recording(recorded_frames)

\* toggle_recording (the Record button): lines 95-125, up to the return or to
\* the QMessageBox.critical of the except branch
toggle_recording ==
    /\ pc = "idle"
    /\ IF is_recording
       THEN /\ lastOp' = "toggle_recording_return"
            /\ UNCHANGED progVars
       ELSE start_recording(<<>>)

\* the error box of line 125 is dismissed; line 126 runs reset_ui
toggle_recording_failed ==
    /\ pc = "start_error_box"
    /\ reset_ui
    /\ pc' = "idle"
    /\ lastOp' = "toggle_recording_failed"
    /\ UNCHANGED <<recorded_frames, time, timer_active, stream, recording, file_path,
                   temp_exists, wav_input, dest_files, result, handles, sessions,
                   delivered, encoder_calls, command, prompt_path, cause>>

\* audio_callback that returns without appending when status is set
audio_callback_drop_on_status(indata, status) ==
    /\ stream = "active"
    /\ Len(delivered) < MaxBlocks
    /\ recorded_frames' = IF status THEN recorded_frames ELSE Append(recorded_frames, indata)
    /\ delivered' = Append(delivered, indata)
    /\ lastOp' = IF status THEN "audio_callback_status" ELSE "audio_callback"
    /\ UNCHANGED <<is_recording, time, timer_active, stream, pc, recording, file_path,
                   temp_exists, wav_input, dest_files, result, handles, sessions,
                   encoder_calls, command, prompt_path, cause>>

\* audio_callback (audio thread, once per block while the stream is active):
\* a non-empty status is printed, and the block is appended either way
audio_callback(indata, status) ==
    /\ stream = "active"
    /\ Len(delivered) < MaxBlocks
    /\ recorded_frames' = Append(recorded_frames, indata)
    /\ delivered' = Append(delivered, indata)
    /\ lastOp' = IF status THEN "audio_callback_status" ELSE "audio_callback"
    /\ UNCHANGED <<is_recording, time, timer_active, stream, pc, recording, file_path,
                   temp_exists, wav_input, dest_files, result, handles, sessions,
                   encoder_calls, command, prompt_path, cause>>

\* lines 141-143: stream.stop() (returns once no callback is pending),
\* stream.close(), timer.stop(); save_file comes next
stop_stream_and_timer ==
    /\ stream' = "closed"
    /\ handles' = handles - 1
    /\ timer_active' = FALSE
    /\ result' = "none"
    /\ pc' = "stopped"
    /\ lastOp' = "stop_recording"
    /\ UNCHANGED <<is_recording, recorded_frames, time, recording, file_path,
                   temp_exists, wav_input, dest_files, sessions, delivered,
                   encoder_calls, command, prompt_path, cause>>

\* stop_recording that goes on to save_file without stopping the stream
stop_recording_no_stream_stop ==
    /\ pc = "idle"
    /\ IF ~is_recording
       THEN /\ lastOp' = "stop_recording_return"
            /\ UNCHANGED progVars
       ELSE /\ timer_active' = FALSE
            /\ result' = "none"
            /\ pc' = "stopped"
            /\ lastOp' = "stop_recording"
            /\ UNCHANGED <<is_recording, recorded_frames, time, stream, handles, recording,
                           file_path, temp_exists, wav_input, dest_files, sessions,
                           delivered, encoder_calls, command, prompt_path, cause>>

\* stop_recording with timer.stop() moved before the guard of line 137
stop_recording_timer_first ==
    /\ pc = "idle"
    /\ IF ~is_recording
       THEN /\ timer_active' = FALSE
            /\ lastOp' = "stop_recording_return"
            /\ UNCHANGED <<is_recording, recorded_frames, time, stream, pc, recording,
                           file_path, temp_exists, wav_input, dest_files, result, handles,
                           sessions, delivered, encoder_calls, command, prompt_path, cause>>
       ELSE stop_stream_and_timer

\* stop_recording (the Stop button), lines 135-143: the guard, then the
\* stream and the timer are stopped
stop_recording ==
    /\ pc = "idle"
    /\ IF ~is_recording
       THEN /\ lastOp' = "stop_recording_return"
            /\ UNCHANGED progVars
       ELSE stop_stream_and_timer

\* save_file without the emptiness check of lines 153-155
save_file_no_empty_check ==
    /\ pc = "stopped"
    /\ recording' = concatenate(recorded_frames)
    /\ pc' = "save_dialog"
    /\ lastOp' = "save_file"
    /\ UNCHANGED <<is_recording, recorded_frames, time, timer_active, stream, file_path,
                   temp_exists, wav_input, dest_files, result, handles, sessions,
                   delivered, encoder_calls, command, prompt_path, cause>>

\* save_file, lines 153-159, entered from line 146: with no block the warning
\* box is shown; otherwise the blocks are concatenated and the save prompt opens
save_file ==
    /\ pc = "stopped"
    /\ IF recorded_frames = <<>>
       THEN /\ result' = "no_audio"
            /\ pc' = "save_warning_box"
            /\ UNCHANGED recording
       ELSE /\ recording' = concatenate(recorded_frames)
            /\ pc' = "save_dialog"
            /\ UNCHANGED result
    /\ lastOp' = "save_file"
    /\ UNCHANGED <<is_recording, recorded_frames, time, timer_active, stream, file_path,
                   temp_exists, wav_input, dest_files, handles, sessions, delivered,
                   encoder_calls, command, prompt_path, cause>>

\* the warning box of line 154 is dismissed: save_file returns (line 155) and
\* stop_recording runs reset_ui (line 149)
save_file_no_audio ==
    /\ pc = "save_warning_box"
    /\ reset_ui
    /\ pc' = "idle"
    /\ lastOp' = "stop_recording_done"
    /\ UNCHANGED <<recorded_frames, time, timer_active, stream, recording, file_path,
                   temp_exists, wav_input, dest_files, result, handles, sessions,
                   delivered, encoder_calls, command, prompt_path, cause>>

\* lines 167-194 for a non-empty file_path: wav.write, then ffmpeg, then the
\* message box of the branch taken (the finally clause has not run yet)
encode(path, w, e) ==
    /\ file_path' = normalize(path)
    /\ wav_input' = recording
    /\ temp_exists' = IF w \in {"ok", "oserror_partial"} THEN TRUE ELSE temp_exists
    /\ encoder_calls' = IF w = "ok" /\ e # "not_found"
                        THEN encoder_calls + 1 ELSE encoder_calls
    /\ dest_files' = IF w = "ok" /\ e \in {"ok", "nonzero_partial"}
                     THEN dest_files \cup {normalize(path)} ELSE dest_files
    /\ result' = CASE w = "fnf" -> "ffmpeg_not_found"
                   [] w \in {"oserror", "oserror_partial"} -> "unexpected_error"
                   [] e = "ok" -> "success"
                   [] e = "not_found" -> "ffmpeg_not_found"
                   [] OTHER -> "ffmpeg_failed"
    /\ command' = IF w = "ok" THEN ffmpeg_command(normalize(path)) ELSE command
    /\ cause' = CASE w # "ok" -> "wav_write_failed"
                  [] e = "ok" -> "encoder_ok"
                  [] e = "not_found" -> "encoder_missing"
                  [] OTHER -> "encoder_nonzero"
    /\ pc' = "save_message_box"

\* save_file without the "if file_path:" test of line 161
save_file_path_chosen_no_cancel_check(path, w, e) ==
    /\ pc = "save_dialog"
    /\ encode(path, w, e)
    /\ lastOp' = "save_file_encode"
    /\ prompt_path' = path
    /\ UNCHANGED <<is_recording, recording, recorded_frames, time, timer_active, stream,
                   handles, sessions, delivered>>

\* the save prompt of line 159 returns file_path: an empty one skips the
\* encode step, save_file returns and reset_ui runs; otherwise lines 162-194
save_file_path_chosen(path, w, e) ==
    /\ pc = "save_dialog"
    /\ IF path = <<>>
       THEN /\ reset_ui
            /\ pc' = "idle"
            /\ recording' = <<>>
            /\ lastOp' = "stop_recording_done"
            /\ UNCHANGED <<file_path, wav_input, temp_exists, encoder_calls, dest_files,
                           result, command, cause>>
       ELSE /\ encode(path, w, e)
            /\ lastOp' = "save_file_encode"
            /\ UNCHANGED <<is_recording, recording>>
    /\ prompt_path' = path
    /\ UNCHANGED <<recorded_frames, time, timer_active, stream, handles, sessions,
                   delivered>>

\* the finally clause without the removal of the temporary file
save_file_finally_no_remove ==
    /\ pc = "save_message_box"
    /\ temp_exists' = temp_exists
    /\ reset_ui
    /\ pc' = "idle"
    /\ recording' = <<>>
    /\ file_path' = <<>>
    /\ wav_input' = <<>>
    /\ command' = <<>>
    /\ prompt_path' = <<>>
    /\ cause' = "none"
    /\ lastOp' = "stop_recording_done"
    /\ UNCHANGED <<recorded_frames, time, timer_active, stream, dest_files, result,
                   handles, sessions, delivered, encoder_calls>>

\* the end of stop_recording with the buffer discarded by the reset
save_file_finally_discards ==
    /\ pc = "save_message_box"
    /\ temp_exists' = FALSE
    /\ reset_ui
    /\ pc' = "idle"
    /\ recording' = <<>>
    /\ file_path' = <<>>
    /\ wav_input' = <<>>
    /\ command' = <<>>
    /\ prompt_path' = <<>>
    /\ cause' = "none"
    /\ recorded_frames' = <<>>
    /\ lastOp' = "stop_recording_done"
    /\ UNCHANGED <<time, timer_active, stream, dest_files, result, handles, sessions,
                   delivered, encoder_calls>>

\* the message box is dismissed: the finally clause of lines 195-198 removes
\* temp_recording.wav if it exists, save_file returns and reset_ui runs
save_file_finally ==
    /\ pc = "save_message_box"
    /\ temp_exists' = FALSE
    /\ reset_ui
    /\ pc' = "idle"
    /\ recording' = <<>>
    /\ file_path' = <<>>
    /\ wav_input' = <<>>
    /\ command' = <<>>
    /\ prompt_path' = <<>>
    /\ cause' = "none"
    /\ lastOp' = "stop_recording_done"
    /\ UNCHANGED <<recorded_frames, time, timer_active, stream, dest_files, result,
                   handles, sessions, delivered, encoder_calls>>

\* the values of time from which a tick is followed: MaxTicks ticks from the
\* 00:00:00 of a start, and the last MaxTicks seconds before midnight
TickWindow == {t \in 0..(SecsPerDay - 1) : t < MaxTicks \/ t >= SecsPerDay - MaxTicks}

\* update_timer that also drops the oldest buffered block
update_timer_touches_buffer ==
    /\ timer_active
    /\ pc \in EventLoopPcs
    /\ time \in TickWindow
    /\ time' = addSecs(time, 1)
    /\ recorded_frames' = IF recorded_frames = <<>> THEN <<>> ELSE Tail(recorded_frames)
    /\ lastOp' = "update_timer"
    /\ UNCHANGED <<is_recording, timer_active, stream, pc, recording, file_path,
                   temp_exists, wav_input, dest_files, result, handles, sessions,
                   delivered, encoder_calls, command, prompt_path, cause>>

\* update_timer (QTimer timeout, dispatched by any event loop of the GUI thread)
update_timer ==
    /\ timer_active
    /\ pc \in EventLoopPcs
    /\ time \in TickWindow
    /\ time' = addSecs(time, 1)
    /\ lastOp' = "update_timer"
    /\ UNCHANGED <<is_recording, recorded_frames, timer_active, stream, pc, recording,
                   file_path, temp_exists, wav_input, dest_files, result, handles,
                   sessions, delivered, encoder_calls, command, prompt_path, cause>>

\* closeEvent (window closed from the main event loop), lines 218-223; the
\* window is the application's last, so the event loop ends after it
closeEvent ==
    /\ pc = "idle"
    /\ IF is_recording
       THEN /\ stream' = "closed"
            /\ handles' = handles - 1
       ELSE UNCHANGED <<stream, handles>>
    /\ pc' = "exited"
    /\ lastOp' = "closeEvent"
    /\ UNCHANGED <<is_recording, recorded_frames, time, timer_active, recording,
                   file_path, temp_exists, wav_input, dest_files, result, sessions,
                   delivered, encoder_calls, command, prompt_path, cause>>

Next ==
    \/ toggle_recording
    \/ toggle_recording_failed
    \/ \E indata \in BlockValues, status \in BOOLEAN : audio_callback(indata, status)
    \/ stop_recording
    \/ save_file
    \/ save_file_no_audio
    \/ \E path \in Paths, w \in WavOutcomes, e \in EncOutcomes :
          save_file_path_chosen(path, w, e)
    \/ save_file_finally
    \/ update_timer
    \/ closeEvent

Spec == Init /\ [][Next]_vars

\* the code's sequencing: a handler that has started runs on, every dialog is
\* eventually answered, and wav.write and the ffmpeg process return
FairSpec ==
    /\ Spec
    /\ WF_vars(toggle_recording_failed)
    /\ WF_vars(save_file)
    /\ WF_vars(save_file_no_audio)
    /\ WF_vars(\E path \in Paths, w \in WavOutcomes, e \in EncOutcomes :
                  save_file_path_chosen(path, w, e))
    /\ WF_vars(save_file_finally)

\* a recording that has been running for almost a day: the state after one
\* accepted start and SecsPerDay - 1 ticks, with the blocks delivered so far
DayInit ==
    /\ is_recording = TRUE
    /\ \E frames \in {<<>>} \cup {<<b>> : b \in BlockValues} :
          recorded_frames = frames /\ delivered = frames
    /\ time = SecsPerDay - 1
    /\ timer_active = TRUE
    /\ stream = "active"
    /\ pc = "idle"
    /\ recording = <<>>
    /\ file_path = <<>>
    /\ temp_exists = FALSE
    /\ wav_input = <<>>
    /\ dest_files = {}
    /\ result = "none"
    /\ handles = 1
    /\ sessions = 1
    /\ encoder_calls = 0
    /\ command = <<>>
    /\ prompt_path = <<>>
    /\ cause = "none"
    /\ lastOp = "update_timer"

DaySpec == DayInit /\ [][Next]_vars

\* ------------------------------------------------------------------ claims
\* positions of the GUI thread inside stop_recording, after line 143
SavePcs == {"stopped", "save_warning_box", "save_dialog", "save_message_box"}

\* C1: whenever save_file has concatenated the buffer (and when it has handed
\* the samples to wav.write), the samples are the concatenation, in arrival
\* order, of exactly the blocks the source delivered since the last accepted
\* start: nothing dropped, duplicated, reordered or kept from an earlier session.
C1_SavedSamplesAreDeliveredBlocks ==
    /\ pc \in {"save_dialog", "save_message_box"} => recording = concatenate(delivered)
    /\ pc = "save_message_box" => wav_input = concatenate(delivered)

\* C1 witness: a second session's two different blocks have reached wav.write
C1_Witness ==
    /\ pc = "save_message_box"
    /\ sessions = 2
    /\ Len(delivered) = 2
    /\ delivered[1] # delivered[2]
    /\ dest_files # {}

\* C2: from the return of stream.stop()/close() to the end of save_file the
\* stream is closed (it was stopped before save_file read the buffer) and no
\* step appends to recorded_frames.
C2_NoAppendOnceStopped ==
    [][(pc \in SavePcs) => (stream = "closed" /\ recorded_frames' = recorded_frames)]_vars

\* C2 witness: an encode step has run on a non-empty buffer
C2_Witness ==
    /\ pc = "save_message_box"
    /\ result = "success"
    /\ Len(recorded_frames) = 2

\* C3: a toggle_recording call while is_recording is true changes nothing: the
\* buffer, the elapsed time, the timer, the stream, the number of sessions and
\* of open streams all stay as they were.
C3_StartWhileRecordingIsNoOp ==
    [][(lastOp' \in {"toggle_recording", "toggle_recording_return"} /\ is_recording)
          => UNCHANGED progVars]_vars

\* C3 witness: a second start request was ignored in a session that has blocks
\* and ticks, and there is still one session with one stream
C3_Witness ==
    /\ lastOp = "toggle_recording_return"
    /\ is_recording
    /\ sessions = 1
    /\ handles = 1
    /\ Len(recorded_frames) > 0
    /\ time > 0

\* C4: a stop_recording call while is_recording is false changes nothing: no
\* stream or timer is touched, save_file does not run, no file is created.
C4_StopWhileIdleIsNoOp ==
    [][(lastOp' \in {"stop_recording", "stop_recording_return"} /\ ~is_recording)
          => UNCHANGED progVars]_vars

\* C4 witness: a stop request was ignored in the Idle state reached after a
\* failed start (the timer is as that start left it)
C4_Witness ==
    /\ lastOp = "stop_recording_return"
    /\ ~is_recording
    /\ sessions >= 1
    /\ timer_active

\* what the encode step would change: the files, the samples handed to
\* wav.write and the count of ffmpeg runs
encodeEffects ==
    <<temp_exists, dest_files, wav_input, encoder_calls, file_path, command, cause>>

\* C5: a stop after zero delivered blocks goes to the "No audio was recorded"
\* warning without prompting for a path, writing the WAV file or running
\* ffmpeg, and dismissing the warning returns the session to Idle.
C5_ZeroLengthRecording ==
    [][/\ (pc = "stopped" /\ delivered = <<>>)
            => (pc' = "save_warning_box" /\ result' = "no_audio"
                /\ UNCHANGED encodeEffects)
       /\ pc = "save_warning_box"
            => (pc' = "idle" /\ ~is_recording' /\ result' = "no_audio"
                /\ UNCHANGED encodeEffects)]_vars

\* C5 witness: a zero-block session, after a session that saved a file, has
\* ended in Idle with the no-audio result
C5_Witness ==
    /\ lastOp = "stop_recording_done"
    /\ result = "no_audio"
    /\ delivered = <<>>
    /\ sessions = 2
    /\ dest_files # {}
    /\ pc = "idle"
    /\ ~is_recording

\* C6: temp_recording.wav exists only while the encode step's message box is
\* up, before the finally clause: once save_file has returned, whatever the
\* outcome, the file does not exist.
C6_TempFileRemoved == pc # "save_message_box" => ~temp_exists

\* C6 witness: save_file has returned after ffmpeg failed on a written WAV file
C6_Witness ==
    /\ lastOp = "stop_recording_done"
    /\ result = "ffmpeg_failed"
    /\ encoder_calls > 0
    /\ ~temp_exists

\* C7 (as claimed): after a failed start the session is Idle with nothing left
\* behind: is_recording false, the tick timer not running, no stream left open.
C7_FailedStartLeavesNothing ==
    lastOp = "toggle_recording_failed"
        => (~is_recording /\ ~timer_active /\ stream \notin {"open", "active"})

\* C8 (as claimed): a callback with a non-empty status after K blocks stops the
\* capture and leaves exactly those K blocks in the buffer.
C8_FaultStopsAndFreezes ==
    [][(lastOp' = "audio_callback_status")
          => (stream' # "active" /\ ~is_recording' /\ recorded_frames' = recorded_frames)]_vars

\* C8 (amended): a callback with a non-empty status after K blocks only logs
\* the status: the block delivered with it is appended after the K earlier
\* blocks, which are kept in order, and the session goes on Recording with the
\* stream active.
C8_FaultIsOnlyLogged ==
    [][(lastOp' = "audio_callback_status")
          => (/\ recorded_frames' = Append(recorded_frames, delivered'[Len(delivered')])
              /\ recorded_frames' = delivered'
              /\ is_recording' /\ stream' = "active" /\ pc' = pc)]_vars

\* C8 witness: a status was signalled with the second block of a session
C8_Witness ==
    /\ lastOp = "audio_callback_status"
    /\ Len(recorded_frames) = 2
    /\ is_recording

\* C9: every accepted stop (the stream has been stopped, pc = "stopped") leads
\* to Idle with is_recording false, whatever save_file's outcome; in Idle a
\* start request is accepted and enters Recording or the start-error box; and
\* whenever the event loop is idle with is_recording true the stream is
\* active, so a stop request can run.
C9_StopLeadsBackToIdle ==
    /\ (pc = "stopped") ~> (pc = "idle" /\ ~is_recording)
    /\ [][(pc = "idle" /\ ~is_recording /\ lastOp' = "toggle_recording")
             => (is_recording' /\ recorded_frames' = <<>>)]_vars
    /\ []((pc = "idle" /\ is_recording) => stream = "active")

\* C9 witness: a new session is Recording after a stop whose encode failed
C9_Witness ==
    /\ lastOp = "toggle_recording"
    /\ is_recording
    /\ stream = "active"
    /\ sessions = 2
    /\ result = "ffmpeg_not_found"

\* C10 (as claimed): once closeEvent has returned the stream is closed, the
\* tick timer is stopped, the session is not Recording and no stream opened by
\* the program is left open.
C10_CloseStopsSession ==
    pc = "exited"
        => (/\ stream \notin {"open", "active"}
            /\ ~timer_active
            /\ ~is_recording
            /\ handles = 0)

C12_FailureKindMatchesCause ==
    pc = "save_message_box"
        => (/\ result = "ffmpeg_not_found" => cause = "encoder_missing"
            /\ result = "ffmpeg_failed" => cause = "encoder_nonzero"
            /\ cause = "wav_write_failed" => result = "unexpected_error"
            /\ result = "success" => cause = "encoder_ok")

\* C13: right after an accepted start the buffer is empty and the elapsed
\* time is zero, whatever earlier sessions left behind.
C13_FreshSessionOnStart ==
    [][(lastOp' = "toggle_recording" /\ ~is_recording)
          => (recorded_frames' = <<>> /\ time' = 0 /\ delivered' = <<>>)]_vars

\* C13 witness: a second session has just started after one that left blocks
\* and ticks and saved a file
C13_Witness ==
    /\ lastOp = "toggle_recording"
    /\ sessions = 2
    /\ is_recording
    /\ recorded_frames = <<>>
    /\ time = 0
    /\ dest_files # {}

\* C14 (as claimed): when stop_recording has finished and the session is Idle,
\* the buffer holds no block.
C14_ResetDiscardsBuffer == lastOp = "stop_recording_done" => recorded_frames = <<>>

\* C14 (amended): the reset at the end of stop_recording leaves the buffer as
\* it was, holding the finished session's blocks; the buffer is discarded by
\* the next accepted start.
C14_BufferKeptUntilNextStart ==
    [][/\ (lastOp' = "stop_recording_done")
            => (recorded_frames' = recorded_frames /\ recorded_frames' = delivered')
       /\ (lastOp' = "toggle_recording" /\ ~is_recording)
            => recorded_frames' = <<>>]_vars

\* C14 witness: Idle after a stop that saved a file, the buffer still holding
\* the session's two blocks
C14_Witness ==
    /\ lastOp = "stop_recording_done"
    /\ pc = "idle"
    /\ ~is_recording
    /\ result = "success"
    /\ Len(recorded_frames) = 2

\* C15 (as claimed): every tick increases the elapsed time by exactly one
\* second, so it is strictly greater after each tick.
C15_TickAddsOneSecond ==
    [][(lastOp' = "update_timer") => (time' = time + 1 /\ time' > time)]_vars

\* the session is stopped: stop_recording is past stream.stop(), or the session
\* is Idle
Frozen == pc \in SavePcs \/ (pc = "idle" /\ ~is_recording)

C17_TicksAndBlocksIndependent ==
    [][/\ (lastOp' = "update_timer")
            => (/\ time' = time + 1
                /\ UNCHANGED <<is_recording, recorded_frames, timer_active, stream, pc,
                               recording, file_path, temp_exists, wav_input, dest_files,
                               result, handles, sessions, delivered, encoder_calls,
                               command, prompt_path, cause>>)
       /\ (lastOp' \in {"audio_callback", "audio_callback_status"})
            => (/\ \E b \in BlockValues : recorded_frames' = Append(recorded_frames, b)
                /\ UNCHANGED <<is_recording, time, timer_active, stream, pc, recording,
                               file_path, temp_exists, wav_input, dest_files, result,
                               handles, sessions, encoder_calls, command, prompt_path,
                               cause>>)]_vars

\* C17 witness: ticks and blocks have interleaved in one session
C17_Witness ==
    /\ is_recording
    /\ time = 2
    /\ Len(recorded_frames) = 2
    /\ lastOp = "update_timer"

\* C18 (as claimed): the tick timer is running exactly when the session is
\* Recording (is_recording true and the stream active).
C18_TimerRunsIffRecording == timer_active <=> (is_recording /\ stream = "active")

\* C19: when the save prompt returns an empty path the encode step is skipped:
\* no file is written, ffmpeg is not run, no result is reported, and the
\* session returns to Idle with the recording still only in the buffer.
C19_CancelledPromptSkipsEncode ==
    [][(pc = "save_dialog" /\ prompt_path' = <<>>)
          => (/\ UNCHANGED encodeEffects
              /\ result' = "none"
              /\ pc' = "idle"
              /\ ~is_recording'
              /\ recorded_frames' = recorded_frames)]_vars

\* C19 witness: Idle after a cancelled prompt on a one-block recording
C19_Witness ==
    /\ lastOp = "stop_recording_done"
    /\ pc = "idle"
    /\ ~is_recording
    /\ result = "none"
    /\ Len(recorded_frames) = 1
    /\ dest_files = {}
    /\ encoder_calls = 0
    /\ ~temp_exists
====
